---- MODULE Spec2Model ----
(***************************************************************************)
(* The proof object model of metamath-rs (src/metamath-rs/src/proof.rs):   *)
(* ProofTree, ProofTreeArray (the hash-consed proof DAG), calc_indent,     *)
(* count_parents, to_rpn and NormalIter.                                   *)
(*                                                                         *)
(* Indices are the zero-based usize indices of the source; a Vec is a TLA+ *)
(* sequence, so element ix of a Vec v is At(v, ix) = v[ix + 1].            *)
(* Option<T> is a sequence of length at most one: None = <<>>,             *)
(* Some(x) = <<x>>.                                                        *)
(***************************************************************************)
EXTENDS Integers, Sequences, FiniteSets, TLC

\* ------------------------------------------------------------- bounds
\* The largest number of nodes a graph is grown to.
MaxNodes == 4
\* The largest number of children of one node description.
MaxChildren == 2
\* Statement addresses are opaque; the model uses 1..NumAddr.
NumAddr == 2
\* Width, in bits, the 64-bit DefaultHasher output is reduced to.
HashBits == 5
\* The largest number of nodes of a graph built with the expression cache on.
MaxExprNodes == 2
\* The largest number of nodes of a graph whose readers run in any order.
MaxReadNodes == 3

Addresses == 1..NumAddr
HashMod == 2 ^ HashBits

\* ------------------------------------------------------------- helpers
None == <<>>
Some(x) == <<x>>
At(v, ix) == v[ix + 1]
Indices(v) == 0..(Len(v) - 1)

\* All sequences over S of length 0..n.
SeqUpTo(S, n) == UNION {[1..k -> S] : k \in 0..n}

\* ------------------------------------------------------------- state
VARIABLES
    map,        \* ProofTreeArray.map: structural hash -> index
    trees,      \* ProofTreeArray.trees
    exprs,      \* ProofTreeArray.exprs: Option<Vec<Vec<u8>>>
    qed,        \* ProofTreeArray.qed
    indent,     \* ProofTreeArray.indent
    finalized,  \* the builder has recorded QED; the graph is read from now on
    call,       \* the last build call and, if it repeats the one before, that one's result
    parents,    \* Option: the vector last returned by count_parents
    rpn,        \* Option: the last to_rpn call, its arguments and its result
    iter,       \* Option: the live NormalIter (explicit, stack)
    stream,     \* the items the live NormalIter has returned so far, and whether it ended
    looked      \* Option: the last index() call on the graph as it is, and its result

vars == <<map, trees, exprs, qed, indent, finalized, call, parents, rpn, iter, stream,
          looked>>

\* ------------------------------------------------------------- hashing
\* One Hasher::write of a word into the running state.  DefaultHasher is a
\* deterministic 64-bit hash; it is reduced here to HashBits bits, so that
\* distinct inputs can collide as they can in the source.
HasherWrite(h, x) == (h * 37 + x * 11 + 5) % HashMod

RECURSIVE HashChildren(_, _, _, _)
HashChildren(ts, children, k, h) ==
    IF k > Len(children) THEN h
    ELSE HashChildren(ts, children, k + 1, HasherWrite(h, At(ts, children[k]).hash))

\* ProofTree::new storing every child index one too high.
ProofTreeNewShifted(ts, address, children) ==
    [address  |-> address,
     children |-> [k \in 1..Len(children) |-> children[k] + 1],
     hash     |-> HashChildren(ts, children, 1, HasherWrite(0, address))]

\* ProofTree::new: the address, then the stored hash of every child, in order.
ProofTreeNew(ts, address, children) ==
    [address  |-> address,
     children |-> children,
     hash     |-> HashChildren(ts, children, 1, HasherWrite(0, address))]

\* PartialEq for ProofTree: the shallow equality.
ShallowEq(t, u) == t.address = u.address /\ t.children = u.children

\* index() that finds a stored node only if it equals the description.
IndexFullEq(m, tree) ==
    IF tree.hash \in DOMAIN m /\ ShallowEq(At(trees, m[tree.hash]), tree)
    THEN Some(m[tree.hash])
    ELSE None

\* index() that never finds anything.
IndexNever(m, tree) == None

\* ProofTreeArray::index
Index(m, tree) == IF tree.hash \in DOMAIN m THEN Some(m[tree.hash]) ELSE None

\* build that forgets to record the hash of the node it appends.
MapInsertForgets(m, h, ix) == m

\* self.map.insert(tree.hash, ix)
MapInsert(m, h, ix) == [k \in DOMAIN m \cup {h} |-> IF k = h THEN ix ELSE m[k]]

\* ------------------------------------------------------------- build
\* The shared symbol pool the formula ranges point into.
Pool == <<193, 40, 194, 41>>
\* Range<usize> values start..end into Pool.
ExprRanges == {r \in (0..Len(Pool)) \X (0..Len(Pool)) : r[1] <= r[2]}

RECURSIVE Uncompress(_, _, _, _)
Uncompress(pool, k, end, u_expr) ==
    IF k >= end THEN u_expr
    ELSE LET chr == At(pool, k) IN
         IF chr < 128
         THEN Uncompress(pool, k + 1, end, Append(u_expr, chr))
         ELSE Uncompress(pool, k + 1, end, Append(Append(u_expr, chr - 128), 32))

\* The expression string without the final u_expr.pop().
BuildExprNoPop(pool, expr) == Uncompress(pool, expr[1], expr[2], <<32>>)

\* The expression string build caches: a space, the decoded range, and a pop.
BuildExpr(pool, expr) ==
    LET u_expr == Uncompress(pool, expr[1], expr[2], <<32>>)
    IN  SubSeq(u_expr, 1, Len(u_expr) - 1)

NoCall == [made |-> FALSE]

\* What one build call leaves in the history variable.
\* hit: index() found the hash; before: trees.len() when the call was made;
\* rep: the call before had the same (addr, children), and then phit, pret
\* and pbefore are that call's hit, ret and before.
CallRecord(addr, children, expr, hit, ret, before) ==
    LET rep == call.made /\ call.addr = addr /\ call.children = children
    IN  [made |-> TRUE, addr |-> addr, children |-> children, expr |-> expr,
         hit |-> hit, ret |-> ret, before |-> before,
         rep |-> rep,
         phit |-> IF rep THEN call.hit ELSE FALSE,
         pret |-> IF rep THEN call.ret ELSE 0,
         pbefore |-> IF rep THEN call.before ELSE 0]

\* build that, when it finds the description stored, caches the expression
\* of the new call in place of the stored one.
BuildRecaches(addr, children, expr) ==
    LET tree == ProofTreeNew(trees, addr, children)
        found == Index(map, tree)
    IN  /\ ~finalized
        /\ (found # None \/ Len(trees) < MaxNodes)
        /\ IF found # None
           THEN /\ call' = CallRecord(addr, children, expr, TRUE, found[1], Len(trees))
                /\ exprs' = IF exprs # None
                            THEN Some([exprs[1] EXCEPT ![found[1] + 1] = BuildExpr(Pool, expr)])
                            ELSE None
                /\ UNCHANGED <<map, trees>>
           ELSE LET ix == Len(trees) IN
                /\ map' = MapInsert(map, tree.hash, ix)
                /\ trees' = Append(trees, tree)
                /\ exprs' = IF exprs # None
                            THEN Some(Append(exprs[1], BuildExpr(Pool, expr)))
                            ELSE None
                /\ call' = CallRecord(addr, children, expr, FALSE, ix, Len(trees))
        /\ looked' = None
        /\ UNCHANGED <<qed, indent, finalized, parents, rpn, iter, stream>>

\* ProofBuilder::build for ProofTreeArray.  The graph is grown to MaxNodes
\* nodes; a call that finds its description stored is possible at any size.
Build(addr, children, expr) ==
    LET tree == ProofTreeNew(trees, addr, children)
        found == Index(map, tree)
    IN  /\ ~finalized
        /\ (found # None \/ Len(trees) < MaxNodes)
        /\ IF found # None
           THEN /\ call' = CallRecord(addr, children, expr, TRUE, found[1], Len(trees))
                /\ UNCHANGED <<map, trees, exprs>>
           ELSE LET ix == Len(trees) IN
                /\ map' = MapInsert(map, tree.hash, ix)
                /\ trees' = Append(trees, tree)
                /\ exprs' = IF exprs # None
                            THEN Some(Append(exprs[1], BuildExpr(Pool, expr)))
                            ELSE None
                /\ call' = CallRecord(addr, children, expr, FALSE, ix, Len(trees))
        /\ looked' = None
        /\ UNCHANGED <<qed, indent, finalized, parents, rpn, iter, stream>>

\* The inputs of build: any address, any list of indices build has returned.
Insert ==
    \E addr \in Addresses :
      \E children \in SeqUpTo(Indices(trees), MaxChildren) :
        \E expr \in (IF exprs = None THEN {<<0, 0>>} ELSE ExprRanges) :
          Build(addr, children, expr)

\* index() asked through a comparison of the stored node with the
\* description, hash equality not being enough.
LookupCompares ==
    /\ ~finalized
    /\ \E addr \in Addresses :
         \E children \in SeqUpTo(Indices(trees), MaxChildren) :
           LET tree == ProofTreeNew(trees, addr, children)
               found == Index(map, tree)
           IN  looked' = Some([addr |-> addr, children |-> children,
                               ret |-> IF found # None /\ ShallowEq(At(trees, found[1]), tree)
                                       THEN found ELSE None])
    /\ call' = NoCall
    /\ UNCHANGED <<map, trees, exprs, qed, indent, finalized, parents, rpn, iter, stream>>

\* ProofTreeArray::index on a description made by ProofTree::new, as build
\* makes it.
Lookup ==
    /\ ~finalized
    /\ \E addr \in Addresses :
         \E children \in SeqUpTo(Indices(trees), MaxChildren) :
           looked' = Some([addr |-> addr, children |-> children,
                           ret |-> Index(map, ProofTreeNew(trees, addr, children))])
    /\ call' = NoCall
    /\ UNCHANGED <<map, trees, exprs, qed, indent, finalized, parents, rpn, iter, stream>>

\* ------------------------------------------------------------- finalization
\* The builder records which index is QED (the pub field qed is assigned by
\* the caller); the graph is only read afterwards.
Finalize ==
    /\ ~finalized
    /\ trees # <<>>
    /\ \E q \in Indices(trees) : qed' = q
    /\ finalized' = TRUE
    /\ call' = NoCall
    /\ UNCHANGED <<map, trees, exprs, indent, parents, rpn, iter, stream, looked>>

\* ------------------------------------------------------------- calc_indent
U16_MAX == 65535

\* vec![u16::MAX; n]
Filled(n, v) == [k \in 1..n |-> v]

\* BinaryHeap::pop with the reversed Ord of IndentNode: an entry of least
\* cost.  Which of several entries of equal cost comes out is the heap's
\* business; tie picks the least or the greatest index among them.
HeapPop(heap, tie) ==
    LET least == {n \in heap : \A m \in heap : n.cost <= m.cost}
    IN  CHOOSE n \in least :
            \A m \in least : IF tie THEN n.index <= m.index ELSE n.index >= m.index

\* The for loop without the test next.cost < dist[next.index]: every
\* child is pushed and its distance overwritten.
RECURSIVE RelaxAlways(_, _, _, _, _)
RelaxAlways(children, k, cost, dist, heap) ==
    IF k > Len(children) THEN [dist |-> dist, heap |-> heap]
    ELSE LET next == [index |-> children[k], cost |-> cost + 1] IN
         RelaxAlways(children, k + 1, cost,
                     [dist EXCEPT ![next.index + 1] = next.cost],
                     heap \cup {next})

\* for &hix in &self.trees[index].children { ... }
\* cost + 1 stays within u16: an entry is pushed only with a cost below
\* u16::MAX, so the cost of a popped entry is at most u16::MAX - 1.
RECURSIVE Relax(_, _, _, _, _)
Relax(children, k, cost, dist, heap) ==
    IF k > Len(children) THEN [dist |-> dist, heap |-> heap]
    ELSE LET next == [index |-> children[k], cost |-> cost + 1] IN
         IF next.cost < At(dist, next.index)
         THEN Relax(children, k + 1, cost,
                    [dist EXCEPT ![next.index + 1] = next.cost],
                    heap \cup {next})
         ELSE Relax(children, k + 1, cost, dist, heap)

\* while let Some(IndentNode { index, cost }) = heap.pop() { ... }
RECURSIVE Dijkstra(_, _, _, _)
Dijkstra(ts, dist, heap, tie) ==
    IF heap = {} THEN dist
    ELSE LET n == HeapPop(heap, tie)
             rest == heap \ {n}
         IN  IF n.cost > At(dist, n.index)
             THEN Dijkstra(ts, dist, rest, tie)
             ELSE LET r == Relax(At(ts, n.index).children, 1, n.cost, dist, rest)
                  IN  Dijkstra(ts, r.dist, r.heap, tie)

\* calc_indent that starts QED at cost 1.
CalcIndentOfFromOne(ts, q, tie) ==
    LET dist0 == [Filled(Len(ts), U16_MAX) EXCEPT ![q + 1] = 1]
    IN  Dijkstra(ts, dist0, {[index |-> q, cost |-> 1]}, tie)

CalcIndentOf(ts, q, tie) ==
    LET dist0 == [Filled(Len(ts), U16_MAX) EXCEPT ![q + 1] = 0]
    IN  Dijkstra(ts, dist0, {[index |-> q, cost |-> 0]}, tie)

\* ProofTreeArray::calc_indent
CalcIndent ==
    /\ finalized
    /\ \E tie \in BOOLEAN : indent' = CalcIndentOf(trees, qed, tie)
    /\ UNCHANGED <<map, trees, exprs, qed, finalized, call, parents, rpn, iter, stream,
                   looked>>

\* ------------------------------------------------------------- count_parents
\* The inner loop setting out[hix] = 1 instead of adding one.
RECURSIVE CountChildrenOnce(_, _, _)
CountChildrenOnce(children, k, out) ==
    IF k > Len(children) THEN out
    ELSE CountChildrenOnce(children, k + 1, [out EXCEPT ![children[k] + 1] = 1])

\* for &hix in &tree.children { out[hix] += 1; }
RECURSIVE CountChildren(_, _, _)
CountChildren(children, k, out) ==
    IF k > Len(children) THEN out
    ELSE CountChildren(children, k + 1,
                       [out EXCEPT ![children[k] + 1] = out[children[k] + 1] + 1])

\* for tree in &self.trees { ... }
RECURSIVE CountTrees(_, _, _)
CountTrees(ts, t, out) ==
    IF t > Len(ts) THEN out
    ELSE CountTrees(ts, t + 1, CountChildren(ts[t].children, 1, out))

CountParentsOf(ts) == CountTrees(ts, 1, Filled(Len(ts), 0))

\* count_parents that adds to the counts of the call before instead of
\* starting from vec![0; n].
CountParentsAccumulates ==
    /\ finalized
    /\ parents' = Some(CountTrees(trees, 1, IF parents = None
                                            THEN Filled(Len(trees), 0)
                                            ELSE parents[1]))
    /\ UNCHANGED <<map, trees, exprs, qed, indent, finalized, call, rpn, iter, stream,
                   looked>>

\* ProofTreeArray::count_parents
CountParents ==
    /\ finalized
    /\ parents' = Some(CountParentsOf(trees))
    /\ UNCHANGED <<map, trees, exprs, qed, indent, finalized, call, rpn, iter, stream,
                   looked>>

\* ------------------------------------------------------------- RPNStep
Normal(fwdref, addr, hyp) ==
    [step |-> "Normal", fwdref |-> fwdref, addr |-> addr, hyp |-> hyp]

\* RPNStep::Backref that drops the hypothesis label.
BackrefNoHyp(backref, hyp) == [step |-> "Backref", backref |-> backref, hyp |-> None]

Backref(backref, hyp) ==
    [step |-> "Backref", backref |-> backref, hyp |-> hyp]

\* ------------------------------------------------------------- to_rpn
\* Env is [out, backrefs, count]; arr, parents and explicit do not change.
\* nodes is not in the source: it records, for every step pushed to out, the
\* index of the node the step was pushed for, so that properties can name it.
RECURSIVE OutputStep(_, _, _, _, _, _)
RECURSIVE OutputChildren(_, _, _, _, _, _)

\* The loop over the children stopping one child early.
OutputChildrenShort(ts, par, explicit, env, tree, i) ==
    IF i + 1 >= Len(tree.children) THEN env
    ELSE LET n_hyp == IF explicit THEN Some(<<tree.address, i>>) ELSE None
             e == OutputStep(ts, par, explicit, env, At(tree.children, i), n_hyp)
         IN  OutputChildren(ts, par, explicit, e, tree, i + 1)

\* for (i, &hix) in tree.children.iter().enumerate() { output_step(..) }
OutputChildren(ts, par, explicit, env, tree, i) ==
    IF i >= Len(tree.children) THEN env
    ELSE LET n_hyp == IF explicit THEN Some(<<tree.address, i>>) ELSE None
             e == OutputStep(ts, par, explicit, env, At(tree.children, i), n_hyp)
         IN  OutputChildren(ts, par, explicit, e, tree, i + 1)

\* output_step with its numbering test and counter update replaced:
\* least is the parents count from which a node is numbered, leaves says
\* whether leaves are numbered too, and counting whether env.count advances.
OutputStepWith(ts, par, explicit, env, step, hyp, least, leaves, counting) ==
    IF At(env.backrefs, step) = 0
    THEN LET tree == At(ts, step)
             e1 == OutputChildren(ts, par, explicit, env, tree, 0)
             numbered == At(par, step) >= least /\ (leaves \/ tree.children # <<>>)
             e2 == IF numbered
                   THEN [e1 EXCEPT !.count = IF counting THEN e1.count + 1 ELSE e1.count,
                                   !.backrefs[step + 1] = e1.count + 1]
                   ELSE e1
             fwdref == IF numbered THEN e1.count + 1 ELSE 0
         IN  [e2 EXCEPT !.out = Append(e2.out, Normal(fwdref, tree.address, hyp)),
                        !.nodes = Append(e2.nodes, step)]
    ELSE [env EXCEPT !.out = Append(env.out, Backref(At(env.backrefs, step), hyp)),
                     !.nodes = Append(env.nodes, step)]

\* output_step that never advances env.count.
OutputStepSameNumber(ts, par, explicit, env, step, hyp) ==
    OutputStepWith(ts, par, explicit, env, step, hyp, 2, FALSE, FALSE)

\* output_step that numbers a node from one parent on (>= 1 for > 1).
OutputStepOneParent(ts, par, explicit, env, step, hyp) ==
    OutputStepWith(ts, par, explicit, env, step, hyp, 1, FALSE, TRUE)

\* output_step without the test !tree.children.is_empty().
OutputStepNumbersLeaves(ts, par, explicit, env, step, hyp) ==
    OutputStepWith(ts, par, explicit, env, step, hyp, 2, TRUE, TRUE)

\* output_step that numbers a node from three parents on (> 2 for > 1).
OutputStepThreeParents(ts, par, explicit, env, step, hyp) ==
    OutputStepWith(ts, par, explicit, env, step, hyp, 3, FALSE, TRUE)

\* fn output_step(env, step, hyp)
OutputStep(ts, par, explicit, env, step, hyp) ==
    IF At(env.backrefs, step) = 0
    THEN LET tree == At(ts, step)
             e1 == OutputChildren(ts, par, explicit, env, tree, 0)
             numbered == At(par, step) > 1 /\ tree.children # <<>>
             e2 == IF numbered
                   THEN [e1 EXCEPT !.count = e1.count + 1,
                                   !.backrefs[step + 1] = e1.count + 1]
                   ELSE e1
             fwdref == IF numbered THEN e2.count ELSE 0
         IN  [e2 EXCEPT !.out = Append(e2.out, Normal(fwdref, tree.address, hyp)),
                        !.nodes = Append(e2.nodes, step)]
    ELSE [env EXCEPT !.out = Append(env.out, Backref(At(env.backrefs, step), hyp)),
                     !.nodes = Append(env.nodes, step)]

\* The Env to_rpn ends with; its out is what to_rpn returns.
ToRpnOf(ts, q, par, explicit) ==
    LET env == [out |-> <<>>, backrefs |-> Filled(Len(ts), 0), count |-> 0,
                nodes |-> <<>>]
    IN  OutputStep(ts, par, explicit, env, q, None)

\* The parents slices to_rpn is called with: what count_parents returns, or
\* a slice that says every node is shared.
ParentsArgs(ts) == {CountParentsOf(ts), Filled(Len(ts), 2)}

\* ProofTreeArray::to_rpn
ToRpn ==
    /\ finalized
    /\ \E par \in ParentsArgs(trees) :
         \E explicit \in BOOLEAN :
           LET env == ToRpnOf(trees, qed, par, explicit) IN
           rpn' = Some([parents |-> par, explicit |-> explicit,
                        out |-> env.out, nodes |-> env.nodes,
                        backrefs |-> env.backrefs])
    /\ UNCHANGED <<map, trees, exprs, qed, indent, finalized, call, parents, iter, stream,
                   looked>>

\* ------------------------------------------------------------- NormalIter
RECURSIVE IterNextOf(_, _, _)

\* NormalIter::next that reads the position *i after it has advanced it.
IterNextOfLateHyp(ts, explicit, stack) ==
    IF stack = <<>> THEN [stack |-> stack, item |-> None, node |-> None]
    ELSE LET ix == stack[Len(stack)][1]
             child == stack[Len(stack)][2]
             children == At(ts, ix).children
         IN  IF child < Len(children)
             THEN IterNextOf(ts, explicit, Append(stack, <<At(children, child), 0>>))
             ELSE LET popped == SubSeq(stack, 1, Len(stack) - 1)
                      last == popped[Len(popped)]
                      hyp == IF popped # <<>> /\ explicit
                             THEN Some(<<At(ts, last[1]).address, last[2] + 1>>)
                             ELSE None
                      bumped == IF popped # <<>>
                                THEN [popped EXCEPT ![Len(popped)] = <<last[1], last[2] + 1>>]
                                ELSE popped
                  IN  [stack |-> bumped,
                       item |-> Some(Normal(0, At(ts, ix).address, hyp)),
                       node |-> Some(ix)]

\* NormalIter::next that always descends into the first child.
IterNextOfFirstChild(ts, explicit, stack) ==
    IF stack = <<>> THEN [stack |-> stack, item |-> None, node |-> None]
    ELSE LET ix == stack[Len(stack)][1]
             child == stack[Len(stack)][2]
             children == At(ts, ix).children
         IN  IF child < Len(children)
             THEN IterNextOf(ts, explicit, Append(stack, <<At(children, 0), 0>>))
             ELSE LET popped == SubSeq(stack, 1, Len(stack) - 1)
                      last == popped[Len(popped)]
                      hyp == IF popped # <<>> /\ explicit
                             THEN Some(<<At(ts, last[1]).address, last[2]>>)
                             ELSE None
                      bumped == IF popped # <<>>
                                THEN [popped EXCEPT ![Len(popped)] = <<last[1], last[2] + 1>>]
                                ELSE popped
                  IN  [stack |-> bumped,
                       item |-> Some(Normal(0, At(ts, ix).address, hyp)),
                       node |-> Some(ix)]

\* NormalIter::next without the *i += 1 on the parent of the popped node.
IterNextOfNoAdvance(ts, explicit, stack) ==
    IF stack = <<>> THEN [stack |-> stack, item |-> None, node |-> None]
    ELSE LET ix == stack[Len(stack)][1]
             child == stack[Len(stack)][2]
             children == At(ts, ix).children
         IN  IF child < Len(children)
             THEN IterNextOf(ts, explicit, Append(stack, <<At(children, child), 0>>))
             ELSE LET popped == SubSeq(stack, 1, Len(stack) - 1)
                      last == popped[Len(popped)]
                      hyp == IF popped # <<>> /\ explicit
                             THEN Some(<<At(ts, last[1]).address, last[2]>>)
                             ELSE None
                  IN  [stack |-> popped,
                       item |-> Some(Normal(0, At(ts, ix).address, hyp)),
                       node |-> Some(ix)]

\* One call of NormalIter::next: the stack it leaves and the item it returns
\* (and, not in the source, the index of the node the item was made for).
IterNextOf(ts, explicit, stack) ==
    IF stack = <<>> THEN [stack |-> stack, item |-> None, node |-> None]
    ELSE LET ix == stack[Len(stack)][1]
             child == stack[Len(stack)][2]
             children == At(ts, ix).children
         IN  IF child < Len(children)
             THEN IterNextOf(ts, explicit, Append(stack, <<At(children, child), 0>>))
             ELSE LET popped == SubSeq(stack, 1, Len(stack) - 1)
                      last == popped[Len(popped)]
                      hyp == IF popped # <<>> /\ explicit
                             THEN Some(<<At(ts, last[1]).address, last[2]>>)
                             ELSE None
                      bumped == IF popped # <<>>
                                THEN [popped EXCEPT ![Len(popped)] = <<last[1], last[2] + 1>>]
                                ELSE popped
                  IN  [stack |-> bumped,
                       item |-> Some(Normal(0, At(ts, ix).address, hyp)),
                       node |-> Some(ix)]

\* ProofTreeArray::normal_iter
NormalIter ==
    /\ finalized
    /\ \E explicit \in BOOLEAN :
         iter' = Some([explicit |-> explicit, stack |-> << <<qed, 0>> >>])
    /\ stream' = [items |-> <<>>, nodes |-> <<>>, ended |-> FALSE]
    /\ UNCHANGED <<map, trees, exprs, qed, indent, finalized, call, parents, rpn, looked>>

\* NormalIter::next, called by the consumer of the stream.
IterNext ==
    /\ iter # None
    /\ LET r == IterNextOf(trees, iter[1].explicit, iter[1].stack) IN
         /\ iter' = Some([iter[1] EXCEPT !.stack = r.stack])
         /\ stream' = IF r.item = None
                      THEN [stream EXCEPT !.ended = TRUE]
                      ELSE [stream EXCEPT !.items = Append(stream.items, r.item[1]),
                                          !.nodes = Append(stream.nodes, r.node[1])]
    /\ UNCHANGED <<map, trees, exprs, qed, indent, finalized, call, parents, rpn, looked>>

\* ------------------------------------------------------------- construction
NoStream == [items |-> <<>>, nodes |-> <<>>, ended |-> FALSE]

\* ProofTreeArray::new(enable_exprs)
New(enable_exprs) ==
    /\ map = <<>>
    /\ trees = <<>>
    /\ exprs = IF enable_exprs THEN Some(<<>>) ELSE None
    /\ qed = 0
    /\ indent = <<>>
    /\ finalized = FALSE
    /\ call = NoCall
    /\ parents = None
    /\ rpn = None
    /\ iter = None
    /\ stream = NoStream
    /\ looked = None

Init == New(FALSE)

Next == Insert

Spec == Init /\ [][Next]_vars

NextIndent == Insert \/ Finalize \/ CalcIndent

SpecIndent == Init /\ [][NextIndent]_vars

NextCount == Insert \/ Finalize \/ CountParents

SpecCount == Init /\ [][NextCount]_vars

NextRpn == Insert \/ Finalize \/ ToRpn

SpecRpn == Init /\ [][NextRpn]_vars

\* Graphs built with the expression cache on or off.  With the cache on the
\* graph is grown to MaxExprNodes nodes.
InitAny == \E enable_exprs \in BOOLEAN : New(enable_exprs)
NextBuild == (exprs = None \/ Len(trees) < MaxExprNodes) /\ Insert
SpecBuild == InitAny /\ [][NextBuild]_vars

\* A builder that also asks index() between its build calls.
NextLookup == Insert \/ Lookup
SpecLookup == Init /\ [][NextLookup]_vars

\* A reader that asks for the indents, the parent counts and the compacted
\* sequence of the finished graph, in any order and any number of times.
NextTables == Insert \/ Finalize \/ CalcIndent \/ CountParents \/ ToRpn
SpecTables == Init /\ [][NextTables]_vars

\* A reader that asks for anything in any order, any number of times, and
\* may drop a NormalIter at any point to make a new one.  The graph is grown
\* to MaxReadNodes nodes (MaxExprNodes with the expression cache on).
NextRead ==
    \/ (Len(trees) < (IF exprs = None THEN MaxReadNodes ELSE MaxExprNodes) /\ Insert)
    \/ Finalize
    \/ CalcIndent
    \/ CountParents
    \/ ToRpn
    \/ NormalIter
    \/ IterNext
SpecRead == InitAny /\ [][NextRead]_vars

\* A reader that runs one encoder at a time: it makes one NormalIter, before
\* it calls to_rpn, and does not call to_rpn while it consumes the stream.
NextEnc ==
    \/ Insert
    \/ Finalize
    \/ ((iter = None \/ stream.ended) /\ ToRpn)
    \/ (rpn = None /\ iter = None /\ NormalIter)
    \/ IterNext

SpecEnc == Init /\ [][NextEnc]_vars

\* ============================================================= properties

\* The description (address, children) of a build call or of a stored node.
Description(addr, children) == [address |-> addr, children |-> children]

\* C1. Dedup idempotence: when build is called twice in a row with the same
\* (address, children), both calls return the same index, the second call
\* appends nothing, and over the two calls the node count grows by one if
\* the first call did not find the description and by zero if it did.
C1_DedupIdempotence ==
    (call.made /\ call.rep) =>
        /\ call.ret = call.pret
        /\ call.before = Len(trees)
        /\ Len(trees) - call.pbefore = (IF call.phit THEN 0 ELSE 1)

\* A new non-leaf description was built and then built again.
C1_Witness ==
    /\ call.made /\ call.rep /\ ~call.phit /\ call.hit
    /\ call.children # <<>>
    /\ Len(trees) = call.pbefore + 1

\* C2. Hash consistency and uniqueness: building the description of a stored
\* node again gives the stored hash and index() gives the node's own index;
\* the dedup index maps every stored hash to the node that has it; and no
\* two distinct indices hold shallow-equal nodes.
C2_HashConsistency ==
    /\ \A i \in Indices(trees) :
          LET t == At(trees, i)
              again == ProofTreeNew(trees, t.address, t.children)
          IN  /\ again.hash = t.hash
              /\ Index(map, again) = Some(i)
              /\ t.hash \in DOMAIN map /\ map[t.hash] = i
    /\ \A i, j \in Indices(trees) :
          ShallowEq(At(trees, i), At(trees, j)) => i = j
    /\ (call.made /\ \E i \in Indices(trees) :
            ShallowEq(At(trees, i), Description(call.addr, call.children)))
         => ShallowEq(At(trees, call.ret), Description(call.addr, call.children))

\* A full graph in which the last build call was coalesced with a stored
\* non-leaf node of the same description.
C2_Witness ==
    /\ Len(trees) = MaxNodes
    /\ call.made /\ call.hit /\ call.children # <<>>
    /\ ShallowEq(At(trees, call.ret), Description(call.addr, call.children))
    /\ call.ret < Len(trees) - 1

\* C3. DAG invariant: every child index stored in the node at index i is the
\* index of a stored node and is smaller than i.
C3_Dag ==
    \A i \in Indices(trees) :
        \A k \in 1..Len(At(trees, i).children) :
            /\ At(trees, i).children[k] \in Indices(trees)
            /\ At(trees, i).children[k] < i

\* The last node of a full graph has two different children, one of them
\* its direct predecessor.
C3_Witness ==
    /\ Len(trees) = MaxNodes
    /\ LET c == At(trees, Len(trees) - 1).children
       IN  Len(c) = 2 /\ c[1] = Len(trees) - 2 /\ c[2] = 0

\* Breadth-first search by levels: frontier is the set of nodes at distance
\* d, seen the set of nodes at a smaller distance.
RECURSIVE BfsLevels(_, _, _, _, _)
BfsLevels(ts, frontier, seen, d, dist) ==
    IF frontier = {} THEN dist
    ELSE LET kids == UNION {{At(ts, p).children[k] : k \in 1..Len(At(ts, p).children)} :
                            p \in frontier}
         IN  BfsLevels(ts, kids \ (seen \cup frontier), seen \cup frontier, d + 1,
                       [i \in 1..Len(ts) |-> IF (i - 1) \in frontier THEN d ELSE dist[i]])

\* The reference: distance from q by levels, U16_MAX where no path leads.
BfsDistance(ts, q) == BfsLevels(ts, {q}, {}, 0, [i \in 1..Len(ts) |-> U16_MAX])

Occurrences(seq, x) == Cardinality({k \in 1..Len(seq) : seq[k] = x})

\* Step k of out is a Normal step that introduces a number.
Introduces(out, k) == out[k].step = "Normal" /\ out[k].fwdref # 0

\* C5. Backreference soundness (introduction and order): in the sequence
\* to_rpn returns, the number of every Backref step is the fwdref of a
\* Normal step earlier in the sequence, and the non-zero fwdref numbers are
\* 1, 2, 3, ... in the order of the sequence, none introduced twice.
C5_BackrefIntroduced ==
    rpn # None =>
        LET out == rpn[1].out IN
        \A k \in 1..Len(out) :
            /\ out[k].step = "Backref" =>
                  /\ out[k].backref > 0
                  /\ \E j \in 1..(k - 1) :
                        out[j].step = "Normal" /\ out[j].fwdref = out[k].backref
            /\ Introduces(out, k) =>
                  out[k].fwdref = 1 + Cardinality({j \in 1..(k - 1) : Introduces(out, j)})

\* to_rpn returned a sequence that introduces the numbers 1 and 2 and refers
\* back to 1 after 2 was introduced.
C5_Witness ==
    /\ rpn # None
    /\ LET out == rpn[1].out IN
       \E i, j, k \in 1..Len(out) :
           /\ i < j /\ j < k
           /\ out[i].step = "Normal" /\ out[i].fwdref = 1
           /\ out[j].step = "Normal" /\ out[j].fwdref = 2
           /\ out[k].step = "Backref" /\ out[k].backref = 1

\* Every number a Normal step of out introduces is the number of a later
\* Backref step of out.
EveryNumberUsed(out) ==
    \A k \in 1..Len(out) :
        Introduces(out, k) =>
            \E j \in (k + 1)..Len(out) :
                out[j].step = "Backref" /\ out[j].backref = out[k].fwdref

\* QED reaches every node of the graph.
AllReachable == \A i \in Indices(trees) : At(BfsDistance(trees, qed), i) # U16_MAX

\* C6 as claimed. For any graph, any QED index and parents = count_parents(),
\* every number to_rpn introduces is the target of a later Backref step.
C6_EveryNumberUsedAnyQed ==
    (rpn # None /\ rpn[1].parents = CountParentsOf(trees)) =>
        EveryNumberUsed(rpn[1].out)

\* C6 as amended. For a graph every node of which QED reaches, with
\* parents = count_parents(), every number to_rpn introduces is the target
\* of a later Backref step.
C6_EveryNumberUsed ==
    (rpn # None /\ rpn[1].parents = CountParentsOf(trees) /\ AllReachable) =>
        EveryNumberUsed(rpn[1].out)

\* to_rpn ran with the counts of count_parents on a full graph that QED
\* reaches all of, and introduced a number.
C6_Witness ==
    /\ rpn # None /\ rpn[1].parents = CountParentsOf(trees) /\ AllReachable
    /\ rpn[1].parents # Filled(Len(trees), 2)
    /\ Len(trees) = MaxNodes
    /\ \E k \in 1..Len(rpn[1].out) : Introduces(rpn[1].out, k)

\* The node at index i has no children.
IsLeaf(i) == At(trees, i).children = <<>>

\* C7. Leaf exemption: to_rpn never records a backreference number for a
\* node without children; every step pushed for such a node is a Normal step
\* with fwdref 0, whatever its parents count; and one step is pushed for it
\* per visit, that is once per occurrence among the children of each node
\* that got a Normal step, and once more if it is QED.
C7_LeafExemption ==
    rpn # None =>
        LET out == rpn[1].out
            nodes == rpn[1].nodes
        IN  \A i \in Indices(trees) :
                IsLeaf(i) =>
                    /\ At(rpn[1].backrefs, i) = 0
                    /\ \A k \in 1..Len(out) :
                          nodes[k] = i => out[k] = Normal(0, At(trees, i).address, out[k].hyp)
                    /\ LET visits == {<<k, c>> \in (1..Len(out)) \X (1..MaxChildren) :
                                         /\ out[k].step = "Normal"
                                         /\ c <= Len(At(trees, nodes[k]).children)
                                         /\ At(trees, nodes[k]).children[c] = i}
                       IN  Occurrences(nodes, i) =
                               Cardinality(visits) + (IF i = qed THEN 1 ELSE 0)

\* to_rpn visited a leaf twice whose parents count is above one, in a
\* sequence that also has a Backref step.
C7_Witness ==
    /\ rpn # None
    /\ \E i \in Indices(trees) :
          /\ IsLeaf(i)
          /\ rpn[1].parents = CountParentsOf(trees)
          /\ At(rpn[1].parents, i) > 1
          /\ Occurrences(rpn[1].nodes, i) >= 2
    /\ \E k \in 1..Len(rpn[1].out) : rpn[1].out[k].step = "Backref"

\* The number of steps a step consumes when the sequence is read as reverse
\* Polish notation: a Normal step takes one per child of its node.
Arity(step, node) == IF step.step = "Normal" THEN Len(At(trees, node).children) ELSE 0

\* Reads out[k..] as reverse Polish notation (pending holds the positions of
\* the steps not yet taken by a parent) and checks every step a Normal step
\* takes as its argument c: it was pushed for child c of that step's node,
\* and its hyp is (address of that node, c) if explicit and None if not.
RECURSIVE ArgumentsLabeled(_, _, _, _, _)
ArgumentsLabeled(out, nodes, explicit, k, pending) ==
    IF k > Len(out)
    THEN /\ pending = <<Len(out)>>
         /\ nodes[Len(out)] = qed
         /\ out[Len(out)].hyp = None
    ELSE LET n == Arity(out[k], nodes[k])
             base == Len(pending) - n
             parent == At(trees, nodes[k])
         IN  /\ base >= 0
             /\ \A c \in 0..(n - 1) :
                   LET a == pending[base + c + 1] IN
                   /\ nodes[a] = At(parent.children, c)
                   /\ out[a].hyp = (IF explicit THEN Some(<<parent.address, c>>) ELSE None)
             /\ ArgumentsLabeled(out, nodes, explicit, k + 1,
                                 Append(SubSeq(pending, 1, base), k))

\* C8. Labeling consistency: in the sequence to_rpn returns, and in the
\* complete sequence of a NormalIter, with explicit every step but the last
\* has hyp = (address of the node it is an argument of, its zero-based
\* position among that node's children) and the last step, for QED, has
\* None; without explicit no step has a hyp.  While a NormalIter is being
\* consumed, every item returned so far has a hyp exactly if explicit, but
\* for the QED item that empties the stack.
C8_Labeling ==
    /\ rpn # None =>
          /\ ArgumentsLabeled(rpn[1].out, rpn[1].nodes, rpn[1].explicit, 1, <<>>)
          /\ \A k \in 1..Len(rpn[1].out) :
                (rpn[1].out[k].hyp # None) <=>
                    (rpn[1].explicit /\ k < Len(rpn[1].out))
    /\ iter # None =>
          /\ \A k \in 1..Len(stream.items) :
                (stream.items[k].hyp # None) <=>
                    (iter[1].explicit /\ ~(k = Len(stream.items) /\ iter[1].stack = <<>>))
          /\ iter[1].stack = <<>> =>
                ArgumentsLabeled(stream.items, stream.nodes, iter[1].explicit, 1, <<>>)

\* An explicit NormalIter was consumed to its end on a graph with sharing,
\* and then to_rpn, explicit too, returned a sequence with a Backref step.
C8_Witness ==
    /\ rpn # None /\ rpn[1].explicit
    /\ \E k \in 1..Len(rpn[1].out) : rpn[1].out[k].step = "Backref"
    /\ iter # None /\ iter[1].explicit /\ stream.ended
    /\ Len(stream.items) > Len(rpn[1].out)
    /\ Len(At(trees, qed).children) = 2

\* The addr fields of a sequence of Normal steps.
AddrsOf(out) == [k \in 1..Len(out) |-> out[k].addr]

\* count_parents() gives no node a count above one.
NoSharing == \A i \in Indices(trees) : At(CountParentsOf(trees), i) <= 1

\* C9. Streaming/compacted agreement without sharing: on a graph where
\* count_parents() gives no node a count above one, to_rpn with these counts
\* and without explicit returns no Backref step, and the addresses of its
\* steps are, in order, those of the complete sequence of a NormalIter
\* without explicit.
C9_AgreementNoSharing ==
    (/\ NoSharing
     /\ rpn # None /\ rpn[1].parents = CountParentsOf(trees) /\ ~rpn[1].explicit
     /\ iter # None /\ ~iter[1].explicit /\ stream.ended)
    => /\ \A k \in 1..Len(rpn[1].out) : rpn[1].out[k].step = "Normal"
       /\ AddrsOf(rpn[1].out) = AddrsOf(stream.items)

\* Both encoders ran without explicit on a full graph without sharing whose
\* QED has two children and reaches every node.
C9_Witness ==
    /\ NoSharing
    /\ rpn # None /\ rpn[1].parents = CountParentsOf(trees) /\ ~rpn[1].explicit
    /\ iter # None /\ ~iter[1].explicit /\ stream.ended
    /\ Len(trees) = MaxNodes
    /\ Len(At(trees, qed).children) = 2
    /\ Len(stream.items) = MaxNodes

\* The number of nodes that list n among their children.
ListingNodes(n) ==
    Cardinality({p \in Indices(trees) :
                    \E k \in 1..Len(At(trees, p).children) : At(trees, p).children[k] = n})

\* The number of places (node, position) at which n is listed as a child.
ListingPlaces(n) ==
    Cardinality({pk \in Indices(trees) \X (1..MaxChildren) :
                    /\ pk[2] <= Len(At(trees, pk[1]).children)
                    /\ At(trees, pk[1]).children[pk[2]] = n})

\* C10 as claimed. The count count_parents returns for a node is the number
\* of nodes that list it among their children.
C10_CountsListingNodes ==
    parents # None =>
        \A n \in Indices(trees) : At(parents[1], n) = ListingNodes(n)

\* C10 as amended. The count count_parents returns for a node is the number
\* of times it is listed among the children of the nodes of the graph: a
\* node that lists it twice counts twice.
C10_CountsListingPlaces ==
    parents # None =>
        /\ Len(parents[1]) = Len(trees)
        /\ \A n \in Indices(trees) : At(parents[1], n) = ListingPlaces(n)

\* count_parents ran on a graph in which one node lists another twice and a
\* third node lists it once more.
C10_Witness ==
    /\ parents # None
    /\ \E n \in Indices(trees) :
          /\ At(parents[1], n) = 3
          /\ ListingNodes(n) = 2


\* ---------------------------------------------------------------------- C11
RECURSIVE Unfold(_, _)
RECURSIVE UnfoldChildren(_, _, _)

\* The post-order listing of the complete unfolding of the graph from node n:
\* the listings of the children in stored order, then n.
Unfold(ts, n) == Append(UnfoldChildren(ts, At(ts, n).children, 0), n)

UnfoldChildren(ts, children, k) ==
    IF k >= Len(children) THEN <<>>
    ELSE Unfold(ts, At(children, k)) \o UnfoldChildren(ts, children, k + 1)

RECURSIVE UnfoldedSize(_, _)
RECURSIVE UnfoldedSizes(_, _, _)

\* The number of nodes of the unfolding of the graph from node n.
UnfoldedSize(ts, n) == 1 + UnfoldedSizes(ts, At(ts, n).children, 0)

UnfoldedSizes(ts, children, k) ==
    IF k >= Len(children) THEN 0
    ELSE UnfoldedSize(ts, At(children, k)) + UnfoldedSizes(ts, children, k + 1)

IsPrefix(s, t) == Len(s) <= Len(t) /\ s = SubSeq(t, 1, Len(s))

\* C11: the items a NormalIter returns are, in order, the post-order listing
\* of the unfolding of the graph from QED: each item is a Normal step with
\* fwdref 0 carrying the address of its node, no Backref is returned, and
\* when the stream has ended it has as many items as the unfolding has nodes.
C11_StreamIsUnfolding ==
    iter # None =>
        LET u == Unfold(trees, qed) IN
        /\ Len(stream.items) = Len(stream.nodes)
        /\ IsPrefix(stream.nodes, u)
        /\ \A k \in 1..Len(stream.items) :
             /\ stream.items[k].step = "Normal"
             /\ stream.items[k].fwdref = 0
             /\ stream.items[k].addr = At(trees, stream.nodes[k]).address
        /\ (iter[1].stack = <<>> <=> stream.nodes = u)
        /\ (stream.ended =>
              /\ stream.nodes = u
              /\ Len(stream.items) = UnfoldedSize(trees, qed))

\* A stream that ended after it visited a shared node with children twice.
C11_Witness ==
    /\ iter # None
    /\ stream.ended
    /\ \E j, k \in 1..Len(stream.nodes) :
         /\ j < k
         /\ stream.nodes[j] = stream.nodes[k]
         /\ At(trees, stream.nodes[j]).children # <<>>
    /\ \E n \in Indices(trees) :
         /\ Len(At(trees, n).children) = 2
         /\ At(At(trees, n).children, 0) # At(At(trees, n).children, 1)
         /\ \E k \in 1..Len(stream.nodes) : stream.nodes[k] = n


\* ---------------------------------------------------------------------- C17
\* The nodes QED reaches.
Reached == {i \in Indices(trees) : At(BfsDistance(trees, qed), i) # U16_MAX}

RECURSIVE ChildEdges(_, _)

\* The number of child entries of the nodes of S taken together.
ChildEdges(ts, S) ==
    IF S = {} THEN 0
    ELSE LET n == CHOOSE x \in S : TRUE
         IN  Len(At(ts, n).children) + ChildEdges(ts, S \ {n})

\* The places of out whose step was made for node n.
VisitsOf(nodes, n) == {k \in 1..Len(nodes) : nodes[k] = n}

\* C17: with parents = count_parents(), to_rpn emits a node that has
\* children as a Normal step at most once, exactly once if QED reaches it;
\* every later visit to it is one Backref step carrying the number of its
\* Normal step; and the output has 1 + (child entries of the non-leaf nodes
\* QED reaches) steps.
C17_NoReEmission ==
    (rpn # None /\ rpn[1].parents = CountParentsOf(trees)) =>
        LET out == rpn[1].out
            nodes == rpn[1].nodes
        IN  /\ Len(nodes) = Len(out)
            /\ \A n \in Indices(trees) :
                 At(trees, n).children # <<>> =>
                   LET visits == VisitsOf(nodes, n)
                       direct == {k \in visits : out[k].step = "Normal"}
                   IN  /\ Cardinality(direct) <= 1
                       /\ (n \in Reached <=> Cardinality(direct) = 1)
                       /\ (n \notin Reached => visits = {})
                       /\ \A k \in visits \ direct :
                            /\ out[k].step = "Backref"
                            /\ \E j \in direct :
                                 /\ j < k
                                 /\ out[j].fwdref # 0
                                 /\ out[k].backref = out[j].fwdref
            /\ Len(out) = 1 + ChildEdges(trees, Reached)

\* to_rpn, with the counts of count_parents, visited two different nodes
\* with children twice or more each.
C17_Witness ==
    /\ rpn # None
    /\ rpn[1].parents = CountParentsOf(trees)
    /\ \E n, m \in Indices(trees) :
         /\ n # m
         /\ At(trees, n).children # <<>>
         /\ At(trees, m).children # <<>>
         /\ Cardinality(VisitsOf(rpn[1].nodes, n)) >= 2
         /\ Cardinality(VisitsOf(rpn[1].nodes, m)) >= 2


\* ---------------------------------------------------------------------- C20
\* The last n elements of seq joined in order, seq being a sequence of
\* sequences.
RECURSIVE JoinLast(_, _)
JoinLast(seq, n) ==
    IF n = 0 THEN <<>>
    ELSE JoinLast(SubSeq(seq, 1, Len(seq) - 1), n - 1) \o seq[Len(seq)]

\* s with the hypothesis label of its last element replaced by hyp.
Relabel(s, hyp) == [s EXCEPT ![Len(s)] = <<s[Len(s)][1], hyp>>]

\* The compacted sequence out read from place k on as reverse Polish
\* notation: a Normal step takes the subtrees of its node's children from
\* the stack and leaves its own subtree, which is saved under its number if
\* it has one; a Backref step leaves the subtree saved under its number,
\* labeled as the Backref is.  Steps are written <<addr, hyp>>.
RECURSIVE Expand(_, _, _, _, _, _)
Expand(ts, out, nodes, k, stack, saved) ==
    IF k > Len(out) THEN stack
    ELSE IF out[k].step = "Normal"
         THEN LET arity == Len(At(ts, nodes[k]).children)
                  sub == Append(JoinLast(stack, arity), <<out[k].addr, out[k].hyp>>)
                  rest == SubSeq(stack, 1, Len(stack) - arity)
                  keep == IF out[k].fwdref # 0
                          THEN [saved EXCEPT ![out[k].fwdref] = sub]
                          ELSE saved
              IN  Expand(ts, out, nodes, k + 1, Append(rest, sub), keep)
         ELSE Expand(ts, out, nodes, k + 1,
                     Append(stack, Relabel(saved[out[k].backref], out[k].hyp)), saved)

ExpandAll(ts, out, nodes) ==
    Expand(ts, out, nodes, 1, <<>>, [n \in 1..Len(out) |-> <<>>])

AddrSeq(s) == [k \in 1..Len(s) |-> s[k][1]]

StreamSteps == [k \in 1..Len(stream.items) |-> <<stream.items[k].addr, stream.items[k].hyp>>]

\* C20: with parents = count_parents(), the output of to_rpn with every
\* Backref replaced by the subtree that ended at the Normal step with that
\* number (Backrefs inside it replaced the same way) has the addresses of
\* the complete NormalIter stream of the same graph, in the same order; and
\* when both were made with the same explicit flag, the label of every
\* Backref is the label of the root step of the subtree the stream emits in
\* its place, so the two sequences agree on labels too.
C20_CompactionLossless ==
    (/\ rpn # None
     /\ rpn[1].parents = CountParentsOf(trees)
     /\ iter # None
     /\ stream.ended) =>
        LET full == ExpandAll(trees, rpn[1].out, rpn[1].nodes) IN
        /\ Len(full) = 1
        /\ AddrSeq(full[1]) = AddrSeq(StreamSteps)
        /\ (rpn[1].explicit = iter[1].explicit => full[1] = StreamSteps)

\* A labeled to_rpn output with two Backrefs of different numbers, of which
\* the second stands for a subtree that held the first, next to the complete
\* labeled stream of the same graph.
C20_Witness ==
    /\ rpn # None
    /\ rpn[1].parents = CountParentsOf(trees)
    /\ rpn[1].explicit
    /\ iter # None
    /\ iter[1].explicit
    /\ stream.ended
    /\ LET out == rpn[1].out IN
       \E i, j, k \in 1..Len(out) :
           /\ i < j /\ j < k
           /\ out[i].step = "Backref"
           /\ out[j].step = "Normal" /\ out[j].fwdref # 0
           /\ out[k].step = "Backref" /\ out[k].backref = out[j].fwdref
           /\ out[k].backref # out[i].backref


\* ---------------------------------------------------------------------- C18
RECURSIVE LongestPath(_, _)
RECURSIVE LongestBelow(_, _, _)

\* The number of edges of the longest path of the graph that starts at n.
LongestPath(ts, n) ==
    IF At(ts, n).children = <<>> THEN 0
    ELSE 1 + LongestBelow(ts, At(ts, n).children, 0)

LongestBelow(ts, children, k) ==
    IF k >= Len(children) THEN 0
    ELSE LET here == LongestPath(ts, At(children, k))
             rest == LongestBelow(ts, children, k + 1)
         IN  IF here >= rest THEN here ELSE rest

\* stack is a path of the graph that starts at QED: each entry but the last
\* points at the child that is the next entry.
IsQedPath(stack) ==
    stack # <<>> =>
        /\ stack[1][1] = qed
        /\ \A j \in 1..(Len(stack) - 1) :
             /\ stack[j][2] \in Indices(At(trees, stack[j][1]).children)
             /\ stack[j + 1][1] = At(At(trees, stack[j][1]).children, stack[j][2])

\* The stack of the next call of next() at its deepest, just before the node
\* the call returns is popped: the stack the call leaves, with the pointer
\* of its last entry not yet advanced, and the returned node on top.
Deepest(r) ==
    LET n == Len(r.stack)
        under == IF n = 0 THEN r.stack
                 ELSE [r.stack EXCEPT ![n] = <<r.stack[n][1], r.stack[n][2] - 1>>]
    IN  Append(under, <<r.node[1], Len(At(trees, r.node[1]).children)>>)

\* What holds of a NormalIter between two calls of next().
StreamState ==
    iter # None =>
        LET stack == iter[1].stack
            r == IterNextOf(trees, iter[1].explicit, stack)
            bound == LongestPath(trees, qed) + 1
        IN  /\ IsQedPath(stack)
            /\ Len(stack) <= bound
            /\ (r.item = None <=> stack = <<>>)
            /\ (r.item # None => IsQedPath(Deepest(r)) /\ Len(Deepest(r)) <= bound)
            /\ Len(stream.items) <= UnfoldedSize(trees, qed)
            /\ (stack = <<>> =>
                  /\ stream.items # <<>>
                  /\ stream.nodes[Len(stream.nodes)] = qed)
            /\ (stream.ended => stack = <<>>)

\* What a call of next() does to the stream: it returns one more item, or,
\* when every step of the unfolding has been returned, the end; after the
\* end nothing changes any more.
StreamStep ==
    (iter # None /\ stream' # stream) =>
        /\ ~stream.ended
        /\ \/ /\ Len(stream'.items) = Len(stream.items) + 1
              /\ SubSeq(stream'.items, 1, Len(stream.items)) = stream.items
              /\ ~stream'.ended
           \/ /\ stream'.items = stream.items
              /\ stream'.ended
              /\ Len(stream.items) = UnfoldedSize(trees, qed)

\* C18: each call of NormalIter::next returns exactly one step or the end;
\* the end comes after as many steps as the unfolding from QED has nodes,
\* so after finitely many calls; the last step before it is that of QED;
\* after the end every call returns the end again; and the stack is always
\* a path of the graph from QED, of at most (longest path from QED) + 1
\* entries, also at its deepest inside a call.
C18_StepMachine == []StreamState /\ [][StreamStep]_vars

\* A stream that was consumed to its end on a graph of depth two or more in
\* which a node is visited more than once.
C18_Witness ==
    /\ iter # None
    /\ stream.ended
    /\ LongestPath(trees, qed) >= 2
    /\ Len(stream.items) > Cardinality(Reached)


\* ---------------------------------------------------------------------- C12
\* The bytes one pool byte stands for: a byte with the high bit set is
\* written with the bit cleared and followed by a space, any other byte is
\* written as it is.
DecodeByte(chr) == IF chr >= 128 THEN <<chr - 128, 32>> ELSE <<chr>>

\* The decoding of the bytes start..end of pool, byte by byte from the end.
RECURSIVE Decoded(_, _, _)
Decoded(pool, start, end) ==
    IF start >= end THEN <<>>
    ELSE Decoded(pool, start, end - 1) \o DecodeByte(At(pool, end - 1))

AllButLast(s) == SubSeq(s, 1, Len(s) - 1)

\* The range ends in a byte with the high bit set, so that its decoding
\* ends in a separator.
EndsInSymbol(pool, expr) == expr[1] < expr[2] /\ At(pool, expr[2] - 1) >= 128

\* The decoding with its trailing separator trimmed if it has one.
Trimmed(pool, expr) ==
    LET d == Decoded(pool, expr[1], expr[2])
    IN  IF EndsInSymbol(pool, expr) THEN AllButLast(d) ELSE d

\* The last build call appended a node with the expression cache on.
BuiltExpr == call.made /\ ~call.hit /\ exprs # None

\* C12 as claimed. The cached formula of a newly appended node is the
\* decoding of its pool range with a trailing separator trimmed if one was
\* produced, and no other byte added or removed.
C12_DecodedAndTrimmed ==
    BuiltExpr => At(exprs[1], call.ret) = Trimmed(Pool, call.expr)

\* C12 as amended. The cached formula of a newly appended node is a space
\* followed by the decoding of its pool range, less the last byte of the
\* whole: for a range that ends in a high-bit byte it is a space followed by
\* the trimmed decoding, for an empty range it is empty, and for a range
\* that ends in another byte it is a space followed by the decoding without
\* that last byte.
C12_SpaceDecodedLessLast ==
    BuiltExpr =>
        LET cached == At(exprs[1], call.ret)
            d == Decoded(Pool, call.expr[1], call.expr[2])
        IN  /\ cached = AllButLast(<<32>> \o d)
            /\ (EndsInSymbol(Pool, call.expr) =>
                  cached = <<32>> \o Trimmed(Pool, call.expr))
            /\ (call.expr[1] = call.expr[2] => cached = <<>>)
            /\ (call.expr[1] < call.expr[2] /\ ~EndsInSymbol(Pool, call.expr) =>
                  /\ cached = <<32>> \o AllButLast(d)
                  /\ Len(cached) = Len(d))

\* build appended a second node whose range holds both kinds of bytes and
\* ends in a high-bit byte.
C12_Witness ==
    /\ BuiltExpr
    /\ call.ret = 1
    /\ EndsInSymbol(Pool, call.expr)
    /\ \E k \in call.expr[1]..(call.expr[2] - 1) : At(Pool, k) < 128
    /\ At(exprs[1], call.ret) # At(exprs[1], 0)


\* ---------------------------------------------------------------------- C13
\* The hash of the description of the build call a step makes, on the graph
\* the call finds.
CalledHash == ProofTreeNew(trees, call'.addr, call'.children).hash

\* A step that is a build call.
IsBuildStep == call'.made /\ (call' # call \/ trees' # trees \/ exprs' # exprs)

\* C13: a build call that finds the hash of its description in the map
\* returns the stored index and leaves trees, map, exprs, qed and indent as
\* they are, whatever expression range it was given; a call that does not
\* find it appends one node at index trees.len(), maps the hash to that
\* index, appends one expression if the cache is on (exprs stays as long as
\* trees), and leaves every stored node, map entry and expression as it is.
C13_Frame ==
    IsBuildStep =>
        IF CalledHash \in DOMAIN map
        THEN /\ call'.hit
             /\ call'.ret = map[CalledHash]
             /\ trees' = trees /\ map' = map /\ exprs' = exprs
             /\ qed' = qed /\ indent' = indent
        ELSE /\ ~call'.hit
             /\ call'.ret = Len(trees)
             /\ Len(trees') = Len(trees) + 1
             /\ SubSeq(trees', 1, Len(trees)) = trees
             /\ At(trees', call'.ret).address = call'.addr
             /\ At(trees', call'.ret).children = call'.children
             /\ DOMAIN map' = DOMAIN map \cup {CalledHash}
             /\ \A h \in DOMAIN map : map'[h] = map[h]
             /\ map'[CalledHash] = Len(trees)
             /\ (exprs = None => exprs' = None)
             /\ (exprs # None =>
                   /\ exprs' # None
                   /\ Len(exprs'[1]) = Len(exprs[1]) + 1
                   /\ Len(exprs'[1]) = Len(trees')
                   /\ SubSeq(exprs'[1], 1, Len(exprs[1])) = exprs[1])
             /\ qed' = qed /\ indent' = indent

C13_FrameOfInsert == [][C13_Frame]_vars

\* A build call found its description stored while the cache was on, and the
\* expression of its range is not the one cached for the stored node.
C13_Witness ==
    /\ call.made
    /\ call.hit
    /\ exprs # None
    /\ At(exprs[1], call.ret) # BuildExpr(Pool, call.expr)


\* ---------------------------------------------------------------------- C14
\* A step that is an index() call, and a step that is a build call made
\* right after an index() call for the same description.
IsLookupStep == looked' # None /\ call' = NoCall
IsBuildAfterLookup ==
    /\ looked # None
    /\ call'.made
    /\ looked' = None
    /\ looked[1].addr = call'.addr
    /\ looked[1].children = call'.children

C14_Step ==
    /\ IsLookupStep =>
         /\ UNCHANGED <<map, trees, exprs, qed, indent, finalized>>
         /\ LET h == ProofTreeNew(trees, looked'[1].addr, looked'[1].children).hash
                stored == {i \in Indices(trees) : At(trees, i).hash = h}
            IN  /\ looked'[1].ret # None => looked'[1].ret[1] \in stored
                /\ looked'[1].ret = None => stored = {}
    /\ IsBuildAfterLookup =>
         /\ looked[1].ret # None =>
              /\ call'.hit
              /\ call'.ret = looked[1].ret[1]
              /\ trees' = trees
         /\ looked[1].ret = None =>
              /\ ~call'.hit
              /\ Len(trees') = Len(trees) + 1

\* C14: index() changes nothing of the graph; the build call made on the
\* graph as index() saw it, for the same description, returns the index
\* index() returned and appends nothing if index() returned one, and appends
\* a node if index() returned None.
C14_LookupAgrees == [][C14_Step]_vars

\* index() was asked for a description with children and returned an index
\* other than 0.
C14_Witness ==
    /\ looked # None
    /\ looked[1].children # <<>>
    /\ looked[1].ret # None
    /\ looked[1].ret[1] > 0


\* ---------------------------------------------------------------------- C19
\* The stored nodes that have the hash of the description (addr, children)
\* and are not that description.
Colliding(addr, children) ==
    LET tree == ProofTreeNew(trees, addr, children)
    IN  {j \in Indices(trees) : At(trees, j).hash = tree.hash /\ ~ShallowEq(At(trees, j), tree)}

\* No stored node is the description (addr, children).
NotStored(addr, children) ==
    \A j \in Indices(trees) :
        ~(At(trees, j).address = addr /\ At(trees, j).children = children)

C19_Step ==
    /\ (call'.made /\ looked' = None /\ NotStored(call'.addr, call'.children)) =>
         \A j \in Colliding(call'.addr, call'.children) :
             /\ call'.hit
             /\ call'.ret = j
             /\ UNCHANGED <<trees, map, exprs>>
    /\ (looked' # None /\ NotStored(looked'[1].addr, looked'[1].children)) =>
         \A j \in Colliding(looked'[1].addr, looked'[1].children) :
             looked'[1].ret = Some(j)

\* C19: a build call for a description that no stored node equals, but
\* whose hash is that of the stored node j, returns j and leaves trees, map
\* and exprs as they are; index() for such a description returns j.
C19_CollisionCoalesced == [][C19_Step]_vars

\* A build call returned the index of a stored node that differs from the
\* description of the call in its address or its children.
C19_Witness ==
    /\ call.made
    /\ call.hit
    /\ NotStored(call.addr, call.children)
    /\ call.ret \in Colliding(call.addr, call.children)


\* ---------------------------------------------------------------------- C16
\* The finished graph A (leaf), B (leaf), C = (A, B), D = (C, C), QED = D.
IsScenario ==
    /\ finalized
    /\ Len(trees) = 4
    /\ At(trees, 0).children = <<>>
    /\ At(trees, 1).children = <<>>
    /\ At(trees, 2).children = <<0, 1>>
    /\ At(trees, 3).children = <<2, 2>>
    /\ qed = 3

\* C16: on the scenario graph count_parents returns [1, 1, 2, 0]; to_rpn
\* with these counts and explicit = false returns Normal(A), Normal(B),
\* Normal(C) with fwdref 1, Backref(1), Normal(D), every other fwdref being
\* 0; and calc_indent leaves indent = [2, 2, 1, 0].
C16_Scenario ==
    IsScenario =>
        /\ parents # None => parents[1] = <<1, 1, 2, 0>>
        /\ (rpn # None /\ rpn[1].parents = <<1, 1, 2, 0>> /\ ~rpn[1].explicit) =>
              rpn[1].out = << Normal(0, At(trees, 0).address, None),
                              Normal(0, At(trees, 1).address, None),
                              Normal(1, At(trees, 2).address, None),
                              Backref(1, None),
                              Normal(0, At(trees, 3).address, None) >>
        /\ indent # <<>> => indent = <<2, 2, 1, 0>>

\* All three were computed on the scenario graph.
C16_Witness ==
    /\ IsScenario
    /\ parents # None
    /\ rpn # None /\ rpn[1].parents = <<1, 1, 2, 0>> /\ ~rpn[1].explicit
    /\ indent # <<>>


\* ---------------------------------------------------------------------- C15
\* Every item a NormalIter made with this flag returns, in order.
RECURSIVE RunIter(_, _, _, _)
RunIter(ts, explicit, stack, acc) ==
    LET r == IterNextOf(ts, explicit, stack)
    IN  IF r.item = None THEN acc
        ELSE RunIter(ts, explicit, r.stack, Append(acc, r.item[1]))

StreamOf(ts, q, explicit) == RunIter(ts, explicit, << <<q, 0>> >>, <<>>)

\* What the readers have in hand is what the graph as it is now gives.
ResultsOfGraph ==
    finalized =>
        /\ parents # None => parents[1] = CountParentsOf(trees)
        /\ rpn # None =>
             rpn[1].out = ToRpnOf(trees, qed, rpn[1].parents, rpn[1].explicit).out
        /\ iter # None =>
             IsPrefix(stream.items, StreamOf(trees, qed, iter[1].explicit))
        /\ indent # <<>> => \A tie \in BOOLEAN : indent = CalcIndentOf(trees, qed, tie)

\* What a step of a reader changes.
ReadStep ==
    finalized =>
        /\ UNCHANGED <<map, trees, exprs, qed, finalized>>
        /\ (parents' # parents \/ rpn' # rpn \/ iter' # iter \/ stream' # stream) =>
              indent' = indent
        /\ indent' # indent => UNCHANGED <<parents, rpn, iter, stream>>
        /\ indent # <<>> => indent' = indent
        /\ parents # None => parents' = parents
        /\ (/\ rpn # None /\ rpn' # None
            /\ rpn'[1].parents = rpn[1].parents
            /\ rpn'[1].explicit = rpn[1].explicit) => rpn' = rpn

\* C15: after finalization count_parents, to_rpn, normal_iter and
\* NormalIter::next leave trees, map, exprs, qed and indent as they are, and
\* calc_indent changes indent only; a second calc_indent leaves indent as
\* the first made it, and whatever was asked before or in between, the
\* counts, the compacted sequence for the same arguments and the items of a
\* stream are the ones the graph gives.
C15_ReadOnly == []ResultsOfGraph /\ [][ReadStep]_vars

\* On a graph with a shared node every table has been computed, a
\* compacted sequence with a Backref is in hand, and a stream is under way.
C15_Witness ==
    /\ finalized
    /\ indent # <<>>
    /\ parents # None
    /\ rpn # None
    /\ \E k \in 1..Len(rpn[1].out) : rpn[1].out[k].step = "Backref"
    /\ iter # None
    /\ stream.items # <<>>
    /\ iter[1].stack # <<>>

====
